---- MODULE Spec2Model ----
(***************************************************************************)
(* A model of src/XrayChain.py: class Chain, its constructor and the       *)
(* propagation string, the buffer of serialized segments, flush() under    *)
(* flush_lock, the in_progress span table and fork.  Threads execute the   *)
(* methods one interpreter step at a time:                                 *)
(* a step is at most one read or one write of state shared between         *)
(* threads (an attribute load, list.append, an attribute store, a lock     *)
(* operation, the put_trace_segments call).                                *)
(***************************************************************************)
EXTENDS Integers, Sequences, FiniteSets, TLC

VARIABLES
    chains,     \* the Chain objects constructed so far, by index
    th,         \* per thread: position in the method it executes and its locals
    sink,       \* every call of Chain.__client.put_trace_segments, in order
    client,     \* Chain.__client is not None ("MOCK_XRAY" not in os.environ)
    env,        \* os.environ["_X_AMZN_TRACE_ID"] as a token string, or unset
    idCount,    \* number of uuid1-derived segment ids generated so far
    clock,      \* number of time.time() readings so far
    appended,   \* history: per chain, every document list.append was executed for
    mixed,      \* history: a record call and another thread's flush overlapped
    budget      \* the number of segments this behaviour may emit

vars == <<chains, th, sink, client, env, idCount, clock, appended, mixed, budget>>

----------------------------------------------------------------------------
(* Bounds of the model *)

MaxSegs == 3        \* segments emitted in one behaviour (one thread, one chain)
MaxConcSegs == 2    \* segments emitted in one behaviour (two threads)
MaxForkSegs == 2    \* segments emitted in one behaviour (one thread, forks)
MaxBacklog == 2     \* largest backlog a chain is constructed with
MaxChains == 2      \* Chain objects in one behaviour
MaxClock == 3       \* readings of time.time() in one behaviour

SeqThreads == {"t1"}
ConcThreads == {"t1", "t2"}

----------------------------------------------------------------------------
(* Python values *)

None == "<None>"                 \* None where a string is expected
NoTime == 0 - 1                  \* None where a time is expected
NoSpan == [start_time |-> NoTime, name |-> [str |-> FALSE, text |-> ""]]

\* Values a caller passes to log_start as name: a string and a non-string.
Names == { [str |-> TRUE, text |-> "work"],
           [str |-> FALSE, text |-> "7"] }

\* metadata, annotations, http as passed by a caller: all absent or all given.
NoPayload == [metadata |-> None, annotations |-> None, http |-> None]
Payloads == { NoPayload, [metadata |-> "m", annotations |-> "a", http |-> "h"] }

\* isinstance(name, str) or isinstance(name, unicode)
IsString(name) == name.str

\* Chain.__segment_id: the n-th fresh id
SegmentId(n) == "s" \o ToString(n)

\* The trace id generated when none is given or inherited.
FreshTraceId(time, n) == "1-" \o ToString(time) \o "-" \o ToString(n)

----------------------------------------------------------------------------
(* The propagation string _X_AMZN_TRACE_ID, a sequence of tokens: the keys, *)
(* "=", ";" and the values.                                                 *)

Unset == <<"<unset>">>

RECURSIVE Concat(_)
Concat(toks) == IF toks = <<>> THEN "" ELSE Head(toks) \o Concat(Tail(toks))

\* str.split(sep): always at least one (possibly empty) part
RECURSIVE Split(_, _)
Split(s, sep) ==
    IF \A i \in 1..Len(s) : s[i] # sep
    THEN <<s>>
    ELSE LET i == CHOOSE j \in 1..Len(s) :
                      s[j] = sep /\ \A k \in 1..(j-1) : s[k] # sep
         IN <<SubSeq(s, 1, i-1)>> \o Split(SubSeq(s, i+1, Len(s)), sep)

\* ParseEnv with each lookup falling back to None on its own.
ParseEnv_Lenient(s) ==
    LET parts == Split(s, ";")
        pairs == [i \in 1..Len(parts) |-> Split(parts[i], "=")]
        wellFormed == \A i \in 1..Len(pairs) : Len(pairs[i]) = 2
        Has(k) == \E i \in 1..Len(pairs) : pairs[i][1] = <<k>>
        Get(k) == LET i == CHOOSE j \in 1..Len(pairs) :
                               /\ pairs[j][1] = <<k>>
                               /\ \A m \in (j+1)..Len(pairs) : pairs[m][1] # <<k>>
                  IN Concat(pairs[i][2])
        Lookup(k) == IF Has(k) THEN Get(k) ELSE None
        none == [trace_id |-> None, parent_id |-> None, sampled |-> None]
    IN IF wellFormed
       THEN [trace_id |-> Lookup("Root"), parent_id |-> Lookup("Parent"),
             sampled |-> Lookup("Sampled")]
       ELSE none

\* dict([p.split("=") for p in s.split(";")]) and the three lookups; any
\* exception gives None for all three.
ParseEnv(s) ==
    LET parts == Split(s, ";")
        pairs == [i \in 1..Len(parts) |-> Split(parts[i], "=")]
        wellFormed == \A i \in 1..Len(pairs) : Len(pairs[i]) = 2
        Has(k) == \E i \in 1..Len(pairs) : pairs[i][1] = <<k>>
        \* the last pair with the key wins in dict()
        Get(k) == LET i == CHOOSE j \in 1..Len(pairs) :
                               /\ pairs[j][1] = <<k>>
                               /\ \A m \in (j+1)..Len(pairs) : pairs[m][1] # <<k>>
                  IN Concat(pairs[i][2])
        none == [trace_id |-> None, parent_id |-> None, sampled |-> None]
    IN IF wellFormed /\ Has("Root") /\ Has("Parent") /\ Has("Sampled")
       THEN [trace_id |-> Get("Root"), parent_id |-> Get("Parent"),
             sampled |-> Get("Sampled")]
       ELSE none

EnvTraceParams(use_env_trace_params, e) ==
    IF use_env_trace_params /\ e # Unset
    THEN ParseEnv(e)
    ELSE [trace_id |-> None, parent_id |-> None, sampled |-> None]

----------------------------------------------------------------------------
(* Chain.__init__ *)

\* The argument mock is "None", "True" or "False".
ResolveTraceId(trace_id, p, fresh) ==
    IF trace_id = None
    THEN IF p.trace_id = None THEN fresh ELSE p.trace_id
    ELSE trace_id

ResolveParentId(parent_id, p) ==
    IF parent_id = None THEN p.parent_id ELSE parent_id

\* ResolveMock with the polarity of Sampled inverted.
ResolveMock_Inverted(mock, p) ==
    IF mock # "None" THEN mock = "True"
    ELSE IF p.sampled # None THEN (IF p.sampled = "1" THEN TRUE ELSE FALSE)
    ELSE FALSE

ResolveMock(mock, p) ==
    IF mock # "None" THEN mock = "True"
    ELSE IF p.sampled # None THEN (IF p.sampled = "1" THEN FALSE ELSE TRUE)
    ELSE FALSE

NewChain(backlog, parent_id, subsegment, trace_id, mock, use_env, e, fresh) ==
    LET p == EnvTraceParams(use_env, e)
    IN [ backlog         |-> backlog,
         segments        |-> <<>>,
         gen             |-> 0,     \* identity of the list object self.segments
         trace_id        |-> ResolveTraceId(trace_id, p, fresh),
         parent_id       |-> ResolveParentId(parent_id, p),
         mock            |-> ResolveMock(mock, p),
         last_segment_id |-> None,
         subsegment      |-> subsegment,
         in_progress     |-> [i \in {} |-> NoSpan],
         flush_lock      |-> FALSE, \* TRUE: the Lock is held
         alive           |-> TRUE,  \* FALSE once __del__ has been entered
         origin          |-> 0 ]    \* the chain this one was forked from

----------------------------------------------------------------------------
(* Segments and thread records *)

\* Argument lists a caller passes to log(): a completed segment, a segment
\* without end_time that has an empty name and the optional fields, and a
\* name that is no string.
LogArgs ==
    { [name |-> [str |-> TRUE, text |-> "work"], start_time |-> 0,
       end_time |-> 5, payload |-> NoPayload],
      [name |-> [str |-> TRUE, text |-> ""], start_time |-> 0,
       end_time |-> NoTime,
       payload |-> [metadata |-> "m", annotations |-> "a", http |-> "h"]],
      [name |-> [str |-> FALSE, text |-> "7"], start_time |-> 0,
       end_time |-> 5, payload |-> NoPayload] }

NoDoc == [ name |-> "", id |-> None, trace_id |-> None, start_time |-> NoTime,
           end_time |-> NoTime, in_progress |-> FALSE, parent_id |-> None,
           type |-> None, metadata |-> None, http |-> None,
           annotations |-> None ]

\* The dictionary log() builds and serializes; an absent key is None, NoTime
\* or FALSE.
Segment(ch, name, start_time, end_time, payload, segment_id, fresh) ==
    [ name        |-> name.text,
      id          |-> IF segment_id \in {None, ""} THEN fresh ELSE segment_id,
      trace_id    |-> ch.trace_id,
      start_time  |-> start_time,
      end_time    |-> end_time,
      in_progress |-> (end_time = NoTime),
      parent_id   |-> ch.parent_id,
      type        |-> IF ch.subsegment THEN "subsegment" ELSE None,
      metadata    |-> payload.metadata,
      http        |-> payload.http,
      annotations |-> payload.annotations ]

NoRet == [op |-> "none", c |-> 1, kind |-> "none", val |-> "", n |-> 0 - 1,
          sent |-> 0, arg |-> None]

\* The arguments of Chain() that select trace_id, parent_id and mock, at
\* their defaults (lines 39-43).
NoArgs == [parent_id |-> None, trace_id |-> None, mock |-> "None",
           use_env_trace_params |-> TRUE]

\* A thread that is in no method; pre and ret describe its last call.
IdleThread(pre, ret) ==
    [ pc |-> "idle", op |-> "none", c |-> 1, seg |-> NoDoc, ref |-> 0,
      nsegments |-> 0, arg |-> None, span |-> NoSpan, payload |-> NoPayload,
      sent |-> 0, args |-> NoArgs, pre |-> pre, ret |-> ret ]

\* The thread record after the call s is executing returned or raised.
Finished(s, kind, val, n) ==
    IdleThread(s.pre, [op |-> s.op, c |-> s.c, kind |-> kind, val |-> val,
                       n |-> n, sent |-> s.sent, arg |-> s.arg])

\* The thread record on entry to a method of chain c.  pre is the chain as
\* the call finds it; it is recorded when a single thread runs, the case in
\* which the chain after the call can be compared with it.
Called(s, op, c) ==
    [s EXCEPT !.op = op, !.c = c, !.ret = NoRet,
              !.pre = IF DOMAIN th = SeqThreads THEN chains[c] ELSE s.pre]

Threads == DOMAIN th
Chains == 1..Len(chains)

RECURSIVE SumLen(_)
SumLen(ss) == IF ss = <<>> THEN 0 ELSE Len(Head(ss)) + SumLen(Tail(ss))

\* Segments emitted so far or about to be.
Emitted == SumLen(appended)
           + Cardinality({t \in Threads :
                 th[t].pc \in {"log_load", "log_append", "le_del", "le_log"}})

CanCall(t, c) ==
    /\ th[t].pc = "idle"
    /\ c \in Chains
    /\ chains[c].alive

RecordPcs == {"log_load", "log_append", "log_check"}
FlushPcs == {"fl_acquire", "fl_check", "fl_empty", "fl_count", "fl_sink",
             "fl_clear", "fl_release"}

\* A thread is inside a record call on a chain another thread is flushing.
Overlap(thr) ==
    \E a \in DOMAIN thr, b \in DOMAIN thr :
        /\ a # b
        /\ thr[a].c = thr[b].c
        /\ thr[a].pc \in RecordPcs
        /\ thr[b].pc \in FlushPcs

\* The history variable mixed follows th; budget never changes.
Track ==
    /\ mixed' = (mixed \/ Overlap(th'))
    /\ budget' = budget

----------------------------------------------------------------------------
(* Chain.log *)

\* Lines 203-233: the name check, the segment dictionary, last_segment_id.
EnterLog(t, s, name, start_time, end_time, payload, segment_id) ==
    IF ~IsString(name)
    THEN /\ th' = [th EXCEPT ![t] = Finished(s, "raise", "ValueError", 0 - 1)]
         /\ UNCHANGED <<chains, idCount>>
    ELSE LET doc == Segment(chains[s.c], name, start_time, end_time, payload,
                            segment_id, SegmentId(idCount + 1))
         IN /\ idCount' = IF segment_id \in {None, ""} THEN idCount + 1
                          ELSE idCount
            /\ chains' = [chains EXCEPT ![s.c].last_segment_id = doc.id]
            /\ th' = [th EXCEPT ![t] = [s EXCEPT !.pc = "log_load", !.seg = doc]]

\* A caller calls log(start_time, end_time, name, metadata, annotations, http);
\* segment_id keeps its default, as in every call the repository makes itself
\* but the one of log_end.
Log(t, c, name, start_time, end_time, payload) ==
    /\ CanCall(t, c)
    /\ Emitted < budget
    /\ EnterLog(t, Called(th[t], "log", c), name, start_time, end_time,
                payload, None)
    /\ Track
    /\ UNCHANGED <<sink, client, env, clock, appended>>

\* Line 235, first half: the attribute load self.segments.
LogLoad(t) ==
    /\ th[t].pc = "log_load"
    /\ th' = [th EXCEPT ![t].pc = "log_append", ![t].ref = chains[th[t].c].gen]
    /\ Track
    /\ UNCHANGED <<chains, sink, client, env, idCount, clock, appended>>

\* Line 235, second half: list.append on the list that was loaded.  A list
\* that flush has replaced meanwhile is referenced by nothing else.
LogAppend(t) ==
    LET s == th[t]
    IN /\ s.pc = "log_append"
       /\ chains' = IF s.ref = chains[s.c].gen
                    THEN [chains EXCEPT ![s.c].segments = Append(@, s.seg)]
                    ELSE chains
       /\ appended' = [appended EXCEPT ![s.c] = Append(@, s.seg)]
       /\ th' = [th EXCEPT ![t].pc = "log_check"]
       /\ Track
       /\ UNCHANGED <<sink, client, env, idCount, clock>>

\* log() returns segment["id"] to its caller (line 239).
LogReturns(s) ==
    IF s.op = "log_start"
    THEN [s EXCEPT !.pc = "ls_insert"]
    ELSE Finished(s, "return", s.seg.id, 0 - 1)

\* LogCheck with > for >= in the backlog test.
LogCheck_Above(t) ==
    LET s == th[t]
    IN /\ s.pc = "log_check"
       /\ th' = [th EXCEPT ![t] =
                    IF Len(chains[s.c].segments) > chains[s.c].backlog
                    THEN [s EXCEPT !.pc = "fl_acquire"]
                    ELSE LogReturns(s)]
       /\ Track
       /\ UNCHANGED <<chains, sink, client, env, idCount, clock, appended>>

\* Line 236: the backlog test, then either flush() or the return.
LogCheck(t) ==
    LET s == th[t]
    IN /\ s.pc = "log_check"
       /\ th' = [th EXCEPT ![t] =
                    IF Len(chains[s.c].segments) >= chains[s.c].backlog
                    THEN [s EXCEPT !.pc = "fl_acquire"]
                    ELSE LogReturns(s)]
       /\ Track
       /\ UNCHANGED <<chains, sink, client, env, idCount, clock, appended>>

----------------------------------------------------------------------------
(* Chain.flush *)

\* A caller calls flush().
Flush(t, c) ==
    /\ CanCall(t, c)
    /\ th' = [th EXCEPT ![t] = [Called(th[t], "flush", c) EXCEPT !.pc = "fl_acquire"]]
    /\ Track
    /\ UNCHANGED <<chains, sink, client, env, idCount, clock, appended>>

\* FlushAcquire with acquire(False): it does not wait for the lock.
FlushAcquire_NoWait(t) ==
    LET s == th[t]
    IN /\ s.pc = "fl_acquire"
       /\ chains' = [chains EXCEPT ![s.c].flush_lock = TRUE]
       /\ th' = [th EXCEPT ![t].pc = "fl_check"]
       /\ Track
       /\ UNCHANGED <<sink, client, env, idCount, clock, appended>>

\* Line 316: flush_lock.acquire() blocks while the lock is held.
FlushAcquire(t) ==
    LET s == th[t]
    IN /\ s.pc = "fl_acquire"
       /\ ~chains[s.c].flush_lock
       /\ chains' = [chains EXCEPT ![s.c].flush_lock = TRUE]
       /\ th' = [th EXCEPT ![t].pc = "fl_check"]
       /\ Track
       /\ UNCHANGED <<sink, client, env, idCount, clock, appended>>

\* Line 317: len(self.segments) == 0
FlushCheck(t) ==
    LET s == th[t]
    IN /\ s.pc = "fl_check"
       /\ th' = [th EXCEPT ![t].pc = IF Len(chains[s.c].segments) = 0
                                     THEN "fl_empty" ELSE "fl_count"]
       /\ Track
       /\ UNCHANGED <<chains, sink, client, env, idCount, clock, appended>>

\* flush() returns n to its caller: the client, log() or __del__.
FlushReturns(s, n) ==
    IF s.op \in {"flush", "del"}
    THEN Finished(s, "return", "", n)
    ELSE LogReturns(s)

\* FlushEmpty without the release of line 318.
FlushEmpty_NoRelease(t) ==
    LET s == th[t]
    IN /\ s.pc = "fl_empty"
       /\ th' = [th EXCEPT ![t] = FlushReturns(s, 0)]
       /\ Track
       /\ UNCHANGED <<chains, sink, client, env, idCount, clock, appended>>

\* Lines 318-319: release and return 0.
FlushEmpty(t) ==
    LET s == th[t]
    IN /\ s.pc = "fl_empty"
       /\ chains' = [chains EXCEPT ![s.c].flush_lock = FALSE]
       /\ th' = [th EXCEPT ![t] = FlushReturns(s, 0)]
       /\ Track
       /\ UNCHANGED <<sink, client, env, idCount, clock, appended>>

\* Line 321: nsegments = len(self.segments)
FlushCount(t) ==
    LET s == th[t]
    IN /\ s.pc = "fl_count"
       /\ th' = [th EXCEPT ![t].pc = "fl_sink",
                           ![t].nsegments = Len(chains[s.c].segments)]
       /\ Track
       /\ UNCHANGED <<chains, sink, client, env, idCount, clock, appended>>

\* An exception leaves flush() at line 328 and every caller up to the client;
\* one raised inside __del__ is reported and dropped by the interpreter.
FlushRaises(s) ==
    IF s.op = "del"
    THEN Finished(s, "ignored", "SinkError", 0 - 1)
    ELSE Finished(s, "raise", "SinkError", 0 - 1)

\* FlushSink submitting self.segments[1:].
FlushSink_Partial(t) ==
    LET s == th[t]
        ch == chains[s.c]
    IN /\ s.pc = "fl_sink"
       /\ IF client /\ ~ch.mock
          THEN \E ok \in BOOLEAN :
                  /\ sink' = Append(sink, [c |-> s.c, docs |-> Tail(ch.segments),
                                           ok |-> ok, by |-> t])
                  /\ th' = [th EXCEPT ![t] =
                               IF ok
                               THEN [s EXCEPT !.pc = "fl_clear", !.sent = s.sent + 1]
                               ELSE FlushRaises([s EXCEPT !.sent = s.sent + 1])]
          ELSE /\ sink' = sink
               /\ th' = [th EXCEPT ![t].pc = "fl_clear"]
       /\ Track
       /\ UNCHANGED <<chains, client, env, idCount, clock, appended>>

\* Lines 327-335: put_trace_segments(TraceSegmentDocuments=self.segments),
\* which returns or raises, or the mock response.
FlushSink(t) ==
    LET s == th[t]
        ch == chains[s.c]
    IN /\ s.pc = "fl_sink"
       /\ IF client /\ ~ch.mock
          THEN \E ok \in BOOLEAN :
                  /\ sink' = Append(sink, [c |-> s.c, docs |-> ch.segments,
                                           ok |-> ok, by |-> t])
                  /\ th' = [th EXCEPT ![t] =
                               IF ok
                               THEN [s EXCEPT !.pc = "fl_clear", !.sent = s.sent + 1]
                               ELSE FlushRaises([s EXCEPT !.sent = s.sent + 1])]
          ELSE /\ sink' = sink
               /\ th' = [th EXCEPT ![t].pc = "fl_clear"]
       /\ Track
       /\ UNCHANGED <<chains, client, env, idCount, clock, appended>>

\* Line 339: self.segments = [], a new list object.
FlushClear(t) ==
    LET s == th[t]
    IN /\ s.pc = "fl_clear"
       /\ chains' = [chains EXCEPT ![s.c].segments = <<>>,
                                   ![s.c].gen = @ + 1]
       /\ th' = [th EXCEPT ![t].pc = "fl_release"]
       /\ Track
       /\ UNCHANGED <<sink, client, env, idCount, clock, appended>>

\* Lines 340-341: release and return nsegments.
FlushRelease(t) ==
    LET s == th[t]
    IN /\ s.pc = "fl_release"
       /\ chains' = [chains EXCEPT ![s.c].flush_lock = FALSE]
       /\ th' = [th EXCEPT ![t] = FlushReturns(s, s.nsegments)]
       /\ Track
       /\ UNCHANGED <<sink, client, env, idCount, clock, appended>>

----------------------------------------------------------------------------
(* Chain.log_start and Chain.log_end *)

\* Lines 246-247: time.time(), then log(start_time, None, name).
LogStart(t, c, name) ==
    /\ CanCall(t, c)
    /\ Emitted < budget
    /\ clock < MaxClock
    /\ clock' = clock + 1
    /\ EnterLog(t, [Called(th[t], "log_start", c) EXCEPT
                       !.span = [start_time |-> clock + 1, name |-> name]],
                name, clock + 1, NoTime, NoPayload, None)
    /\ Track
    /\ UNCHANGED <<sink, client, env, appended>>

\* Lines 248-252: the entry of in_progress, and the return of the id.
LsInsert(t) ==
    LET s == th[t]
        ip == chains[s.c].in_progress
    IN /\ s.pc = "ls_insert"
       /\ chains' = [chains EXCEPT ![s.c].in_progress =
                        [i \in DOMAIN ip \cup {s.seg.id} |->
                            IF i = s.seg.id THEN s.span ELSE ip[i]]]
       /\ th' = [th EXCEPT ![t] = Finished(s, "return", s.seg.id, 0 - 1)]
       /\ Track
       /\ UNCHANGED <<sink, client, env, idCount, clock, appended>>

\* log_end(segment_id) on chain c is going to emit a record: the id is in
\* in_progress and no other thread is about to delete it.
Closes(c, segment_id) ==
    /\ segment_id \in DOMAIN chains[c].in_progress
    /\ \A u \in Threads :
          ~(th[u].pc = "le_del" /\ th[u].c = c /\ th[u].arg = segment_id)

\* LogEnd with in_progress.pop(segment_id, default) for the lookup.
LogEnd_Pop(t, c, segment_id, payload) ==
    LET s == [Called(th[t], "log_end", c) EXCEPT !.arg = segment_id,
                                                !.payload = payload]
        ip == chains[c].in_progress
    IN /\ CanCall(t, c)
       /\ Closes(c, segment_id) => Emitted < budget
       /\ clock + Cardinality({u \in Threads : th[u].pc \in {"le_del", "le_log"}})
             < MaxClock
       /\ th' = [th EXCEPT ![t] =
                    IF segment_id \in DOMAIN ip
                    THEN [s EXCEPT !.pc = "le_del", !.span = ip[segment_id]]
                    ELSE [s EXCEPT !.pc = "le_log",
                                   !.span = [start_time |-> 0,
                                             name |-> [str |-> TRUE, text |-> ""]]]]
       /\ Track
       /\ UNCHANGED <<chains, sink, client, env, idCount, clock, appended>>

\* Line 259: segment = self.in_progress[segment_id], a KeyError if absent.
LogEnd(t, c, segment_id, payload) ==
    LET s == [Called(th[t], "log_end", c) EXCEPT !.arg = segment_id,
                                                !.payload = payload]
        ip == chains[c].in_progress
    IN /\ CanCall(t, c)
       /\ Closes(c, segment_id) => Emitted < budget
       /\ clock + Cardinality({u \in Threads : th[u].pc \in {"le_del", "le_log"}})
             < MaxClock
       /\ th' = [th EXCEPT ![t] =
                    IF segment_id \in DOMAIN ip
                    THEN [s EXCEPT !.pc = "le_del", !.span = ip[segment_id]]
                    ELSE Finished(s, "raise", "KeyError", 0 - 1)]
       /\ Track
       /\ UNCHANGED <<chains, sink, client, env, idCount, clock, appended>>

\* LeDel with in_progress.pop(segment_id, None) for the del statement.
LeDel_Silent(t) ==
    LET s == th[t]
        ip == chains[s.c].in_progress
    IN /\ s.pc = "le_del"
       /\ chains' = [chains EXCEPT ![s.c].in_progress =
                        [i \in DOMAIN ip \ {s.arg} |-> ip[i]]]
       /\ th' = [th EXCEPT ![t].pc = "le_log"]
       /\ Track
       /\ UNCHANGED <<sink, client, env, idCount, clock, appended>>

\* Line 260: del self.in_progress[segment_id], a KeyError if absent.
LeDel(t) ==
    LET s == th[t]
        ip == chains[s.c].in_progress
    IN /\ s.pc = "le_del"
       /\ IF s.arg \in DOMAIN ip
          THEN /\ chains' = [chains EXCEPT ![s.c].in_progress =
                                [i \in DOMAIN ip \ {s.arg} |-> ip[i]]]
               /\ th' = [th EXCEPT ![t].pc = "le_log"]
          ELSE /\ chains' = chains
               /\ th' = [th EXCEPT ![t] = Finished(s, "raise", "KeyError", 0 - 1)]
       /\ Track
       /\ UNCHANGED <<sink, client, env, idCount, clock, appended>>

\* LeLog with the time of the call as start_time.
LeLog_NewStart(t) ==
    LET s == th[t]
    IN /\ s.pc = "le_log"
       /\ clock' = clock + 1
       /\ EnterLog(t, s, s.span.name, clock + 1, clock + 1, s.payload, s.arg)
       /\ Track
       /\ UNCHANGED <<sink, client, env, appended>>

\* Lines 261-268: time.time(), then log(start_time, end_time, name, ...,
\* segment_id).
LeLog(t) ==
    LET s == th[t]
    IN /\ s.pc = "le_log"
       /\ clock' = clock + 1
       /\ EnterLog(t, s, s.span.name, s.span.start_time, clock + 1, s.payload,
                   s.arg)
       /\ Track
       /\ UNCHANGED <<sink, client, env, appended>>

----------------------------------------------------------------------------
(* Chain.fork_subsegment, Chain.fork_root, Chain.__del__ *)

\* parent_id as a caller of fork passes it
ParentArgs == {None, "abc123"}

\* Fork without mock=self.mock in the constructor call.
Fork_NoMock(t, c, subsegment, parent_id) ==
    LET ch == chains[c]
        op == IF subsegment THEN "fork_subsegment" ELSE "fork_root"
        s == [Called(th[t], op, c) EXCEPT !.arg = parent_id]
        pid == IF parent_id = None THEN ch.last_segment_id ELSE parent_id
        child == NewChain(ch.backlog, pid, subsegment, ch.trace_id,
                          "None", TRUE, env,
                          FreshTraceId(clock + 1, Len(chains) + 1))
    IN /\ CanCall(t, c)
       /\ Len(chains) < MaxChains
       /\ IF subsegment /\ ch.last_segment_id = None
          THEN /\ th' = [th EXCEPT ![t] = Finished(s, "raise", "RuntimeError", 0 - 1)]
               /\ UNCHANGED <<chains, appended>>
          ELSE /\ chains' = Append(chains, [child EXCEPT !.origin = c])
               /\ appended' = Append(appended, <<>>)
               /\ th' = [th EXCEPT ![t] = Finished(s, "return", "", Len(chains) + 1)]
       /\ Track
       /\ UNCHANGED <<sink, client, env, idCount, clock>>

\* Fork with a child that starts on the buffer of the forking chain.
Fork_SharedBuffer(t, c, subsegment, parent_id) ==
    LET ch == chains[c]
        op == IF subsegment THEN "fork_subsegment" ELSE "fork_root"
        s == [Called(th[t], op, c) EXCEPT !.arg = parent_id]
        pid == IF parent_id = None THEN ch.last_segment_id ELSE parent_id
        child == NewChain(ch.backlog, pid, subsegment, ch.trace_id,
                          IF ch.mock THEN "True" ELSE "False", TRUE, env,
                          FreshTraceId(clock + 1, Len(chains) + 1))
    IN /\ CanCall(t, c)
       /\ Len(chains) < MaxChains
       /\ IF subsegment /\ ch.last_segment_id = None
          THEN /\ th' = [th EXCEPT ![t] = Finished(s, "raise", "RuntimeError", 0 - 1)]
               /\ UNCHANGED <<chains, appended>>
          ELSE /\ chains' = Append(chains, [child EXCEPT !.origin = c,
                                                         !.segments = ch.segments])
               /\ appended' = Append(appended, <<>>)
               /\ th' = [th EXCEPT ![t] = Finished(s, "return", "", Len(chains) + 1)]
       /\ Track
       /\ UNCHANGED <<sink, client, env, idCount, clock>>

\* Fork without trace_id=self.trace_id in the constructor call.
Fork_NewTrace(t, c, subsegment, parent_id) ==
    LET ch == chains[c]
        op == IF subsegment THEN "fork_subsegment" ELSE "fork_root"
        s == [Called(th[t], op, c) EXCEPT !.arg = parent_id]
        pid == IF parent_id = None THEN ch.last_segment_id ELSE parent_id
        child == NewChain(ch.backlog, pid, subsegment, None,
                          IF ch.mock THEN "True" ELSE "False", TRUE, env,
                          FreshTraceId(clock + 1, Len(chains) + 1))
    IN /\ CanCall(t, c)
       /\ Len(chains) < MaxChains
       /\ IF subsegment /\ ch.last_segment_id = None
          THEN /\ th' = [th EXCEPT ![t] = Finished(s, "raise", "RuntimeError", 0 - 1)]
               /\ UNCHANGED <<chains, appended>>
          ELSE /\ chains' = Append(chains, [child EXCEPT !.origin = c])
               /\ appended' = Append(appended, <<>>)
               /\ th' = [th EXCEPT ![t] = Finished(s, "return", "", Len(chains) + 1)]
       /\ Track
       /\ UNCHANGED <<sink, client, env, idCount, clock>>

\* Chain.__fork
Fork(t, c, subsegment, parent_id) ==
    LET ch == chains[c]
        op == IF subsegment THEN "fork_subsegment" ELSE "fork_root"
        s == [Called(th[t], op, c) EXCEPT !.arg = parent_id]
        pid == IF parent_id = None THEN ch.last_segment_id ELSE parent_id
        child == NewChain(ch.backlog, pid, subsegment, ch.trace_id,
                          IF ch.mock THEN "True" ELSE "False", TRUE, env,
                          FreshTraceId(clock + 1, Len(chains) + 1))
    IN /\ CanCall(t, c)
       /\ Len(chains) < MaxChains
       /\ IF subsegment /\ ch.last_segment_id = None
          THEN /\ th' = [th EXCEPT ![t] = Finished(s, "raise", "RuntimeError", 0 - 1)]
               /\ UNCHANGED <<chains, appended>>
          ELSE /\ chains' = Append(chains, [child EXCEPT !.origin = c])
               /\ appended' = Append(appended, <<>>)
               /\ th' = [th EXCEPT ![t] = Finished(s, "return", "", Len(chains) + 1)]
       /\ Track
       /\ UNCHANGED <<sink, client, env, idCount, clock>>

\* The last reference to the chain is dropped: __del__ calls flush().
Del(t, c) ==
    /\ CanCall(t, c)
    /\ \A u \in Threads : th[u].pc # "idle" => th[u].c # c
    /\ chains' = [chains EXCEPT ![c].alive = FALSE]
    /\ th' = [th EXCEPT ![t] = [Called(th[t], "del", c) EXCEPT !.pc = "fl_acquire"]]
    /\ Track
    /\ UNCHANGED <<sink, client, env, idCount, clock, appended>>

\* pre of a thread that has called no method yet and holds no chain.
NoChain == [NewChain(MaxBacklog, None, FALSE, None, "None", FALSE, Unset, None)
               EXCEPT !.alive = FALSE]

\* A caller calls Chain(backlog, parent_id, subsegment, trace_id, mock,
\* use_env_trace_params).
Construct(t, backlog, parent_id, subsegment, trace_id, mock, use_env) ==
    LET n == Len(chains) + 1
        ch == NewChain(backlog, parent_id, subsegment, trace_id, mock, use_env,
                       env, FreshTraceId(clock + 1, n))
        ret == [NoRet EXCEPT !.op = "init", !.c = n, !.kind = "return", !.n = n]
    IN /\ th[t].pc = "idle"
       /\ Len(chains) < MaxChains
       /\ chains' = Append(chains, ch)
       /\ appended' = Append(appended, <<>>)
       /\ th' = [th EXCEPT ![t] = [IdleThread(th[t].pre, ret) EXCEPT !.args =
                    [parent_id |-> parent_id, trace_id |-> trace_id,
                     mock |-> mock, use_env_trace_params |-> use_env]]]
       /\ Track
       /\ UNCHANGED <<sink, client, env, idCount, clock>>

----------------------------------------------------------------------------
(* Specifications *)

\* Root=t9;Parent=p9;Sampled=1
EnvSampled == <<"Root", "=", "t9", ";", "Parent", "=", "p9", ";",
                "Sampled", "=", "1">>

\* Root=t8;Parent=p8;Sampled=0
EnvUnsampled == <<"Root", "=", "t8", ";", "Parent", "=", "p8", ";",
                  "Sampled", "=", "0">>

\* Sampled=yes;Self=x;Parent=p7;Root=t7
EnvReordered == <<"Sampled", "=", "yes", ";", "Self", "=", "x", ";",
                  "Parent", "=", "p7", ";", "Root", "=", "t7">>

\* Root=t9;Parent=p9
EnvNoSampled == <<"Root", "=", "t9", ";", "Parent", "=", "p9">>

\* Root=t9;Sampled=1
EnvNoParent == <<"Root", "=", "t9", ";", "Sampled", "=", "1">>

\* Root=t9;Parent=p9;Sampled
EnvBarePart == <<"Root", "=", "t9", ";", "Parent", "=", "p9", ";", "Sampled">>

\* Root=t9=x;Parent=p9;Sampled=1
EnvTwoEquals == <<"Root", "=", "t9", "=", "x", ";", "Parent", "=", "p9", ";",
                  "Sampled", "=", "1">>

\* Root=t9;Parent=p9;Sampled=1;
EnvTrailing == <<"Root", "=", "t9", ";", "Parent", "=", "p9", ";",
                 "Sampled", "=", "1", ";">>

\* the empty string
EnvEmpty == <<>>

\* Values of os.environ["_X_AMZN_TRACE_ID"] a chain is constructed under.
EnvStrings ==
    { Unset, EnvSampled, EnvUnsampled, EnvReordered, EnvNoSampled, EnvNoParent,
      EnvBarePart, EnvTwoEquals, EnvTrailing, EnvEmpty }

\* trace_id, parent_id and mock as a caller of Chain() passes them
TraceArgs == {None, "tX"}
MockArgs == {"None", "True", "False"}

InitChain(threads, ch, segs) ==
    /\ budget = segs
    /\ chains = <<ch>>
    /\ th = [t \in threads |-> IdleThread(ch, NoRet)]
    /\ sink = <<>>
    /\ idCount = 0
    /\ clock = 0
    /\ appended = <<<<>>>>
    /\ mixed = FALSE

\* How the first chain is constructed and what surrounds it: a client and
\* no mock, an explicit mock, no client.
Setups ==
    { [client |-> TRUE,  mock |-> "None"],
      [client |-> TRUE,  mock |-> "True"],
      [client |-> FALSE, mock |-> "None"] }

\* One thread and one chain, constructed by Chain(backlog, mock=mock).
Init ==
    \E su \in Setups, backlog \in 1..MaxBacklog :
        /\ client = su.client
        /\ env = Unset
        /\ InitChain(SeqThreads,
                     NewChain(backlog, None, FALSE, None, su.mock, TRUE, env,
                              FreshTraceId(0, 1)),
                     MaxSegs)

\* One thread, a first chain constructed by Chain(backlog, mock=mock,
\* use_env_trace_params=False) and its forks, with the propagation string
\* set in the environment.
InitFork ==
    \E su \in Setups, backlog \in 1..MaxBacklog :
        /\ client = su.client
        /\ env = EnvSampled
        /\ InitChain(SeqThreads,
                     NewChain(backlog, None, FALSE, None, su.mock, FALSE, env,
                              FreshTraceId(0, 1)),
                     MaxForkSegs)

\* Two threads that share one chain, constructed by Chain(backlog) with a
\* client and without a propagation string.
InitConc ==
    /\ client = TRUE
    /\ env = Unset
    /\ \E backlog \in 1..MaxBacklog :
          InitChain(ConcThreads,
                    NewChain(backlog, None, FALSE, None, "None", TRUE, env,
                             FreshTraceId(0, 1)),
                    MaxConcSegs)

\* No chain yet; the propagation string is any of EnvStrings.
InitCtor ==
    /\ client = TRUE
    /\ env \in EnvStrings
    /\ budget = 0
    /\ chains = <<>>
    /\ th = [t \in SeqThreads |-> IdleThread(NoChain, NoRet)]
    /\ sink = <<>>
    /\ idCount = 0
    /\ clock = 0
    /\ appended = <<>>
    /\ mixed = FALSE

\* Chains are constructed.
NextCtor ==
    \/ \E t \in Threads, parent_id \in ParentArgs, trace_id \in TraceArgs :
          \E mock \in MockArgs, use_env \in BOOLEAN :
              Construct(t, MaxBacklog, parent_id, FALSE, trace_id, mock, use_env)

\* One chain, from construction to __del__.
Next ==
    \/ \E t \in Threads, c \in Chains, a \in LogArgs :
          Log(t, c, a.name, a.start_time, a.end_time, a.payload)
    \/ \E t \in Threads : LogLoad(t)
    \/ \E t \in Threads : LogAppend(t)
    \/ \E t \in Threads : LogCheck(t)
    \/ \E t \in Threads, c \in Chains : Flush(t, c)
    \/ \E t \in Threads : FlushAcquire(t)
    \/ \E t \in Threads : FlushCheck(t)
    \/ \E t \in Threads : FlushEmpty(t)
    \/ \E t \in Threads : FlushCount(t)
    \/ \E t \in Threads : FlushSink(t)
    \/ \E t \in Threads : FlushClear(t)
    \/ \E t \in Threads : FlushRelease(t)
    \/ \E t \in Threads, c \in Chains, name \in Names : LogStart(t, c, name)
    \/ \E t \in Threads : LsInsert(t)
    \/ \E t \in Threads, c \in Chains, payload \in Payloads :
          \E id \in DOMAIN chains[c].in_progress \cup {SegmentId(1)} :
              LogEnd(t, c, id, payload)
    \/ \E t \in Threads : LeDel(t)
    \/ \E t \in Threads : LeLog(t)
    \/ \E t \in Threads, c \in Chains : Del(t, c)

\* Chains and their forks.
NextFork ==
    \/ \E t \in Threads, c \in Chains, a \in LogArgs :
          Log(t, c, a.name, a.start_time, a.end_time, a.payload)
    \/ \E t \in Threads : LogLoad(t)
    \/ \E t \in Threads : LogAppend(t)
    \/ \E t \in Threads : LogCheck(t)
    \/ \E t \in Threads, c \in Chains : Flush(t, c)
    \/ \E t \in Threads : FlushAcquire(t)
    \/ \E t \in Threads : FlushCheck(t)
    \/ \E t \in Threads : FlushEmpty(t)
    \/ \E t \in Threads : FlushCount(t)
    \/ \E t \in Threads : FlushSink(t)
    \/ \E t \in Threads : FlushClear(t)
    \/ \E t \in Threads : FlushRelease(t)
    \/ \E t \in Threads, c \in Chains, name \in Names : LogStart(t, c, name)
    \/ \E t \in Threads : LsInsert(t)
    \/ \E t \in Threads, c \in Chains, payload \in Payloads :
          \E id \in DOMAIN chains[c].in_progress \cup {SegmentId(1)} :
              LogEnd(t, c, id, payload)
    \/ \E t \in Threads : LeDel(t)
    \/ \E t \in Threads : LeLog(t)
    \/ \E t \in Threads, c \in Chains, sub \in BOOLEAN, pid \in ParentArgs :
          Fork(t, c, sub, pid)

\* Threads that share a chain.
NextConc ==
    \/ \E t \in Threads, c \in Chains, a \in LogArgs :
          Log(t, c, a.name, a.start_time, a.end_time, a.payload)
    \/ \E t \in Threads : LogLoad(t)
    \/ \E t \in Threads : LogAppend(t)
    \/ \E t \in Threads : LogCheck(t)
    \/ \E t \in Threads, c \in Chains : Flush(t, c)
    \/ \E t \in Threads : FlushAcquire(t)
    \/ \E t \in Threads : FlushCheck(t)
    \/ \E t \in Threads : FlushEmpty(t)
    \/ \E t \in Threads : FlushCount(t)
    \/ \E t \in Threads : FlushSink(t)
    \/ \E t \in Threads : FlushClear(t)
    \/ \E t \in Threads : FlushRelease(t)
    \/ \E t \in Threads, c \in Chains, name \in Names : LogStart(t, c, name)
    \/ \E t \in Threads : LsInsert(t)
    \/ \E t \in Threads, c \in Chains, payload \in Payloads :
          \E id \in DOMAIN chains[c].in_progress \cup {SegmentId(1)} :
              LogEnd(t, c, id, payload)
    \/ \E t \in Threads : LeDel(t)
    \/ \E t \in Threads : LeLog(t)

Spec == Init /\ [][Next]_vars

SpecFork == InitFork /\ [][NextFork]_vars

SpecConc == InitConc /\ [][NextConc]_vars

SpecCtor == InitCtor /\ [][NextCtor]_vars

----------------------------------------------------------------------------
(* Notions the properties are stated with *)

\* No call of the sink has failed so far.
NoFailure == \A k \in 1..Len(sink) : sink[k].ok

\* The number of positions of seq that hold d.
Occ(seq, d) == Cardinality({i \in 1..Len(seq) : seq[i] = d})

\* The number of places d holds in the batches the sink accepted from chain c.
SinkCopies(c, d) ==
    Cardinality({p \in (1..Len(sink)) \X (1..(MaxSegs + MaxConcSegs + MaxForkSegs)) :
                    /\ sink[p[1]].c = c
                    /\ sink[p[1]].ok
                    /\ p[2] <= Len(sink[p[1]].docs)
                    /\ sink[p[1]].docs[p[2]] = d})

\* Between the acquire and the release of flush_lock.
LockedPcs == FlushPcs \ {"fl_acquire"}

Holders(c) == {t \in Threads : th[t].c = c /\ th[t].pc \in LockedPcs}

\* No flush of chain c is between the sink's return and the clear of line 339,
\* where the batch is both submitted and still in the buffer.
Settled(c) == \A t \in Threads : ~(th[t].c = c /\ th[t].pc = "fl_clear")

\* The chain uses the sink.
Submits(ch) == client /\ ~ch.mock

----------------------------------------------------------------------------
(* Properties *)

\* C1: with a sink that always succeeds and mock=false, whatever the
\* interleaving of record and flush calls of several threads, every segment
\* that was appended is either in the buffer or in exactly one batch handed
\* to the sink: none is lost, none is duplicated (looked at when no flush is
\* between its submission and its clear).
C1_NoSegmentLostOrDuplicated ==
    NoFailure =>
        \A c \in Chains :
            Submits(chains[c]) /\ Settled(c) =>
                \A i \in 1..Len(appended[c]) :
                    Occ(chains[c].segments, appended[c][i])
                        + SinkCopies(c, appended[c][i]) = 1

\* C2: at most one thread is between acquiring and releasing a chain's
\* flush lock; while the sink succeeds no segment is in two batches, and if
\* no record call overlapped a flush every segment is in the buffer or in
\* exactly one batch.
C2_FlushSerialized ==
    \A c \in Chains :
        /\ Cardinality(Holders(c)) <= 1
        /\ Holders(c) # {} => chains[c].flush_lock
        /\ NoFailure /\ Submits(chains[c]) =>
              \A i \in 1..Len(appended[c]) :
                  /\ SinkCopies(c, appended[c][i]) <= 1
                  /\ ~mixed /\ Settled(c) =>
                        Occ(chains[c].segments, appended[c][i])
                            + SinkCopies(c, appended[c][i]) = 1

\* C2 witness: two threads called flush() on a chain with a buffered
\* segment; one has submitted the batch, the other waits for the lock.
C2_Witness ==
    /\ ~mixed
    /\ NoFailure
    /\ th["t1"].pc = "fl_clear"
    /\ th["t2"].pc = "fl_acquire"
    /\ th["t1"].op = "flush"
    /\ th["t2"].op = "flush"
    /\ Len(sink) = 1
    /\ Len(sink[1].docs) = 1

\* The last document appended on chain c.
LastAppended(c) == appended[c][Len(appended[c])]

\* The documents the sink accepted from chain c, in order, from call k on.
RECURSIVE Accepted(_, _)
Accepted(c, k) ==
    IF k > Len(sink) THEN <<>>
    ELSE (IF sink[k].c = c /\ sink[k].ok THEN sink[k].docs ELSE <<>>)
         \o Accepted(c, k + 1)

\* The emitted stream of chain c: the accepted batches, then the buffer.
Stream(c) == Accepted(c, 1) \o chains[c].segments

RecordOps == {"log", "log_start", "log_end"}

\* C3: on a chain used by one thread whose flushes succeed, a record call
\* that finds k segments in the buffer leaves k + 1 if k + 1 is below the
\* backlog and 0 otherwise (the flush ran inside the call); between calls
\* the buffer is shorter than the backlog.
C3_AutoFlushAtBacklog ==
    NoFailure =>
        \A t \in Threads :
            LET r == th[t].ret
                k == Len(th[t].pre.segments)
            IN /\ th[t].pc = "idle" =>
                     \A c \in Chains : Len(chains[c].segments) < chains[c].backlog
               /\ r.op \in RecordOps /\ r.kind = "return" =>
                     Len(chains[r.c].segments) =
                         IF k + 1 >= chains[r.c].backlog THEN 0 ELSE k + 1

\* C3 witness: the record call that found backlog - 1 >= 1 segments returned
\* and the buffer is empty.
C3_Witness ==
    \E t \in Threads :
        /\ NoFailure
        /\ th[t].ret.op = "log"
        /\ th[t].ret.kind = "return"
        /\ Len(th[t].pre.segments) >= 1
        /\ Len(th[t].pre.segments) = chains[th[t].ret.c].backlog - 1
        /\ chains[th[t].ret.c].segments = <<>>

\* C4: with a client and mock=false, a flush() call on a non-empty buffer
\* calls the sink at most once, exactly once if the call does not fail, and
\* the batch is the whole buffer in the order of recording: what the call
\* found in the buffer, with the segment of the record call that triggered it.
C4_SinkOncePerFlush ==
    \A t \in Threads :
        LET s == th[t]
            r == s.ret
        IN /\ s.sent <= 1
           /\ r.sent <= 1
           /\ s.pc = "fl_clear" /\ Submits(chains[s.c]) =>
                 /\ s.sent = 1
                 /\ sink[Len(sink)].docs = chains[s.c].segments
                 /\ sink[Len(sink)].docs =
                        IF s.op \in RecordOps THEN Append(s.pre.segments, s.seg)
                        ELSE s.pre.segments
           /\ r.kind = "raise" /\ r.val = "SinkError" =>
                 /\ r.sent = 1
                 /\ sink[Len(sink)].docs =
                        IF r.op \in RecordOps
                        THEN Append(s.pre.segments, LastAppended(r.c))
                        ELSE s.pre.segments
           /\ r.op = "flush" /\ r.kind = "return" /\ Submits(s.pre)
                 /\ s.pre.segments # <<>> =>
                 /\ r.sent = 1
                 /\ sink[Len(sink)].ok
                 /\ sink[Len(sink)].docs = s.pre.segments
                 /\ r.n = Len(s.pre.segments)

\* C4 witness: after a flush() that returned on one call of the sink, a
\* record call returned whose flush called the sink once with a batch of
\* two segments.
C4_Witness ==
    \E t \in Threads :
        /\ th[t].ret.op \in RecordOps
        /\ th[t].ret.kind = "return"
        /\ th[t].ret.sent = 1
        /\ Len(sink) = 2
        /\ Len(sink[1].docs) = 1
        /\ Len(sink[2].docs) = 2
        /\ sink[2].docs[1].id # sink[2].docs[2].id

\* C5: a chain with mock=true or without a client, and every chain forked
\* from it, never calls the sink; its flush() on a non-empty buffer returns
\* the number of buffered segments and leaves the buffer empty.
C5_MockNeverSubmits ==
    /\ ~Submits(chains[1]) =>
          /\ sink = <<>>
          /\ \A c \in Chains : ~Submits(chains[c])
    /\ \A t \in Threads :
          LET r == th[t].ret
              pre == th[t].pre
          IN r.op = "flush" /\ r.kind # "none" /\ ~Submits(pre)
                /\ pre.segments # <<>> =>
                /\ r.kind = "return"
                /\ r.n = Len(pre.segments)
                /\ r.sent = 0
                /\ chains[r.c].segments = <<>>

\* C5 witness: with a client and a propagation string that asks for
\* sampling, flush() of a chain forked from a mock chain returned the count.
C5_Witness ==
    \E t \in Threads :
        /\ client
        /\ chains[1].mock
        /\ th[t].ret.op = "flush"
        /\ th[t].ret.kind = "return"
        /\ th[t].ret.c = 2
        /\ th[t].ret.n >= 1
        /\ chains[2].origin = 1

\* C6: flush() on an empty buffer returns 0 without a call of the sink and
\* leaves the chain as it found it, the flush lock released.
C6_EmptyFlushNoEffect ==
    \A t \in Threads :
        LET s == th[t]
            r == s.ret
        IN /\ s.op = "flush" /\ s.pre.segments = <<>> =>
                 /\ s.pc \in {"fl_acquire", "fl_check", "fl_empty"}
                 /\ s.sent = 0
                 /\ chains[s.c] = [s.pre EXCEPT !.flush_lock = (s.pc # "fl_acquire")]
           /\ r.op = "flush" /\ r.kind # "none" /\ s.pre.segments = <<>> =>
                 /\ r.kind = "return"
                 /\ r.n = 0
                 /\ r.sent = 0
                 /\ chains[r.c] = s.pre
                 /\ ~chains[r.c].flush_lock

\* C6 witness: flush() returned 0 on a chain that has emitted segments and
\* whose buffer was empty.
C6_Witness ==
    \E t \in Threads :
        /\ th[t].ret.op = "flush"
        /\ th[t].ret.kind = "return"
        /\ th[t].ret.n = 0
        /\ th[t].pre.segments = <<>>
        /\ th[t].pre.last_segment_id # None

\* C7: when the sink fails inside flush(), the caller sees the failure and
\* the buffer is already cleared: the failed batch is not kept.
C7_FailedBatchCleared ==
    \A t \in Threads :
        th[t].ret.kind = "raise" /\ th[t].ret.val = "SinkError" =>
            chains[th[t].ret.c].segments = <<>>

\* C8: no failing call leaves the flush lock held: whenever no thread is
\* executing flush() on a chain, its lock is free.
C8_LockFreeOutsideFlush ==
    \A c \in Chains : Holders(c) = {} => ~chains[c].flush_lock

\* C9: log_end with an id that is not in in_progress raises KeyError and
\* changes nothing: no record, no flush, no call of the sink, the chain as
\* it was.
C9_CloseUnknownSpan ==
    \A t \in Threads :
        LET s == th[t]
            r == s.ret
        IN /\ s.op = "log_end" => s.arg \in DOMAIN s.pre.in_progress
           /\ r.op = "log_end" /\ r.kind # "none"
                 /\ r.arg \notin DOMAIN s.pre.in_progress =>
                 /\ r.kind = "raise"
                 /\ r.val = "KeyError"
                 /\ r.sent = 0
                 /\ chains[r.c] = s.pre

\* C9 witness: the second log_end for an id whose completed record is
\* already emitted raised KeyError.
C9_Witness ==
    \E t \in Threads :
        /\ th[t].ret.op = "log_end"
        /\ th[t].ret.kind = "raise"
        /\ th[t].ret.val = "KeyError"
        /\ \E i \in 1..Len(appended[th[t].ret.c]) :
              /\ appended[th[t].ret.c][i].id = th[t].ret.arg
              /\ ~appended[th[t].ret.c][i].in_progress

\* C10: log_start emits a record with in_progress and no end_time under a
\* new id and enters it in in_progress; a successful log_end removes the id
\* and emits a record with the same id, name and start_time, with end_time
\* and without in_progress; two records of one id are the in-progress one
\* followed by the completed one; no record has both end_time and
\* in_progress; the emitted stream is the records in this order.
C10_OpenClosePairs ==
    \A c \in Chains :
        LET a == appended[c]
        IN /\ \A i \in 1..Len(a) : (a[i].end_time = NoTime) = a[i].in_progress
           /\ \A i \in 1..Len(a), j \in 1..Len(a) :
                 i < j /\ a[i].id = a[j].id =>
                     /\ a[i].in_progress
                     /\ ~a[j].in_progress
                     /\ a[i].name = a[j].name
                     /\ a[i].start_time = a[j].start_time
           /\ Submits(chains[c]) /\ Settled(c) => Stream(c) = a
           /\ \A t \in Threads :
                 LET r == th[t].ret
                     pre == th[t].pre
                 IN /\ r.c = c /\ r.op = "log_start" /\ r.kind = "return" =>
                          /\ LastAppended(c).id = r.val
                          /\ LastAppended(c).in_progress
                          /\ \A i \in 1..(Len(a) - 1) : a[i].id # r.val
                          /\ r.val \notin DOMAIN pre.in_progress
                          /\ r.val \in DOMAIN chains[c].in_progress
                          /\ chains[c].in_progress[r.val].start_time
                                = LastAppended(c).start_time
                          /\ chains[c].in_progress[r.val].name.text
                                = LastAppended(c).name
                    /\ r.c = c /\ r.op = "log_end" /\ r.kind = "return" =>
                          /\ r.val = r.arg
                          /\ LastAppended(c).id = r.arg
                          /\ ~LastAppended(c).in_progress
                          /\ LastAppended(c).name = pre.in_progress[r.arg].name.text
                          /\ LastAppended(c).start_time
                                = pre.in_progress[r.arg].start_time
                          /\ LastAppended(c).end_time > LastAppended(c).start_time
                          /\ r.arg \notin DOMAIN chains[c].in_progress

\* C10 witness: log_end returned and the chain has emitted the in-progress
\* record and the completed record of its id.
C10_Witness ==
    \E t \in Threads :
        LET r == th[t].ret
            a == appended[r.c]
        IN /\ r.op = "log_end"
           /\ r.kind = "return"
           /\ \E i \in 1..Len(a), j \in 1..Len(a) :
                 /\ i < j
                 /\ a[i].id = r.arg
                 /\ a[j].id = r.arg
                 /\ a[i].in_progress
                 /\ ~a[j].in_progress

\* The ids log_start emitted an in-progress record for on chain c: time.time()
\* is positive, and a caller of log() passes the start_time 0.
Opened(c) ==
    {appended[c][i].id : i \in {j \in 1..Len(appended[c]) :
        appended[c][j].in_progress /\ appended[c][j].start_time > 0}}

\* The ids a completed record was emitted for on chain c.
Completed(c) ==
    {appended[c][i].id : i \in {j \in 1..Len(appended[c]) :
        ~appended[c][j].in_progress}}

\* No thread is inside log_start or log_end on chain c.
NoSpanCall(c) ==
    \A t \in Threads :
        th[t].pc # "idle" /\ th[t].c = c => th[t].op \notin {"log_start", "log_end"}

\* C11: whenever no log_start or log_end call is executing on a chain,
\* in_progress holds exactly the ids for which log_start emitted an
\* in-progress record and no completed record followed, also after a
\* log_start whose auto-flush failed in the sink.
C11_OpenSpansTracked ==
    \A c \in Chains :
        NoSpanCall(c) => DOMAIN chains[c].in_progress = Opened(c) \ Completed(c)

ForkOps == {"fork_root", "fork_subsegment"}

\* C12: between the calls of the thread that uses it, a chain's
\* last_segment_id is the id of the record it emitted last; fork_root() and
\* fork_subsegment() without a parent_id on a chain that has emitted a
\* record return a chain whose parent_id is that id and whose trace_id,
\* backlog and mock are those of the forking chain; all chains of a fork
\* tree have one trace_id.
C12_ForkInheritsLastSegment ==
    /\ \A c \in Chains :
          /\ chains[c].trace_id = chains[1].trace_id
          /\ chains[c].origin # 0 =>
                /\ chains[c].backlog = chains[chains[c].origin].backlog
                /\ chains[c].mock = chains[chains[c].origin].mock
          /\ (\A t \in Threads : th[t].pc = "idle") /\ appended[c] # <<>> =>
                chains[c].last_segment_id = LastAppended(c).id
    /\ \A t \in Threads :
          LET r == th[t].ret
              pre == th[t].pre
          IN r.op \in ForkOps /\ r.kind # "none" /\ r.arg = None
                /\ pre.last_segment_id # None =>
                /\ r.kind = "return"
                /\ chains[r.n].parent_id = pre.last_segment_id
                /\ chains[r.n].trace_id = pre.trace_id
                /\ chains[r.n].backlog = pre.backlog
                /\ chains[r.n].mock = pre.mock
                /\ chains[r.n].subsegment = (r.op = "fork_subsegment")

\* C12 witness: fork_subsegment() returned on a chain that has emitted the
\* two records of a span, and the child reports under the span's id.
C12_Witness ==
    \E t \in Threads :
        LET r == th[t].ret
        IN /\ r.op = "fork_subsegment"
           /\ r.kind = "return"
           /\ r.arg = None
           /\ Len(appended[r.c]) = 2
           /\ ~LastAppended(r.c).in_progress
           /\ appended[r.c][1].id = LastAppended(r.c).id
           /\ chains[r.n].parent_id = LastAppended(r.c).id
           /\ env = EnvSampled

\* C13: fork_subsegment(parent_id) raises RuntimeError exactly when the
\* chain has emitted no record and no parent_id is given; with a parent_id
\* on a chain that has emitted nothing it returns a subsegment chain with
\* that parent_id; when it raises, the forking chain is unchanged.
C13_SubsegmentForkGuard ==
    \A t \in Threads :
        LET r == th[t].ret
            pre == th[t].pre
        IN r.op = "fork_subsegment" /\ r.kind # "none" =>
              /\ (r.kind = "raise") =
                    (pre.last_segment_id = None /\ r.arg = None)
              /\ r.kind = "raise" =>
                    /\ r.val = "RuntimeError"
                    /\ chains[r.c] = pre
              /\ r.kind = "return" /\ r.arg # None =>
                    /\ chains[r.n].parent_id = r.arg
                    /\ chains[r.n].subsegment

\* C14: log() with a name that is no string or is the empty string raises
\* before anything is buffered: no emitted record has an empty name, and a
\* call that raised ValueError made no call of the sink and left the chain
\* (buffer, last_segment_id, in_progress) as it found it.
C14_InvalidNameRejected ==
    /\ \A c \in Chains : \A i \in 1..Len(appended[c]) : appended[c][i].name # ""
    /\ \A t \in Threads :
          LET r == th[t].ret
          IN r.kind = "raise" /\ r.val = "ValueError" =>
                /\ r.sent = 0
                /\ chains[r.c] = th[t].pre

\* The propagation strings of EnvStrings that are well-formed, and the
\* values they carry, read off the strings.
WellFormedEnvs == {EnvSampled, EnvUnsampled, EnvReordered}

Carried(e) ==
    CASE e = EnvSampled   -> [Root |-> "t9", Parent |-> "p9", Sampled |-> "1"]
      [] e = EnvUnsampled -> [Root |-> "t8", Parent |-> "p8", Sampled |-> "0"]
      [] e = EnvReordered -> [Root |-> "t7", Parent |-> "p7", Sampled |-> "yes"]

\* The chain a Chain() call returned got a trace id of its own.
FreshTrace(n) ==
    /\ chains[n].trace_id \notin {None, "", "t7", "t8", "t9"} \cup TraceArgs
    /\ \A d \in Chains : d # n => chains[d].trace_id # chains[n].trace_id

\* C15: Chain() resolves each field with the explicit argument first:
\* trace_id is the argument, else Root of the propagation string if
\* use_env_trace_params holds and the string is present and well-formed,
\* else a fresh id; parent_id is the argument, else Parent, else None; mock
\* is the argument, else Sampled # "1", else False.  Without
\* use_env_trace_params the string is not looked at.
C15_ExplicitWins ==
    \A t \in Threads :
        LET r == th[t].ret
            a == th[t].args
            ch == chains[r.n]
            parsed == a.use_env_trace_params /\ env \in WellFormedEnvs
        IN r.op = "init" =>
              /\ r.kind = "return"
              /\ IF a.trace_id # None THEN ch.trace_id = a.trace_id
                 ELSE IF parsed THEN ch.trace_id = Carried(env).Root
                 ELSE FreshTrace(r.n)
              /\ IF a.parent_id # None THEN ch.parent_id = a.parent_id
                 ELSE IF parsed THEN ch.parent_id = Carried(env).Parent
                 ELSE ch.parent_id = None
              /\ IF a.mock # "None" THEN ch.mock = (a.mock = "True")
                 ELSE IF parsed THEN ch.mock = (Carried(env).Sampled # "1")
                 ELSE ch.mock = FALSE

\* C15 witness: two chains constructed under Sampled=yes;Self=x;Parent=p7;
\* Root=t7, the first with use_env_trace_params and nothing else, the second
\* with an explicit parent_id and mock=False.
C15_Witness ==
    /\ env = EnvReordered
    /\ Len(chains) = 2
    /\ chains[1].trace_id = "t7"
    /\ chains[1].parent_id = "p7"
    /\ chains[1].mock
    /\ th["t1"].ret.op = "init"
    /\ th["t1"].ret.n = 2
    /\ th["t1"].args = [parent_id |-> "abc123", trace_id |-> None,
                        mock |-> "False", use_env_trace_params |-> TRUE]
    /\ chains[2].trace_id = "t7"
    /\ chains[2].parent_id = "abc123"
    /\ ~chains[2].mock

\* The propagation strings of EnvStrings that are present and malformed: a
\* required key is missing, or a part is not one Key=Value pair.
MalformedEnvs ==
    {EnvNoSampled, EnvNoParent, EnvBarePart, EnvTwoEquals, EnvTrailing, EnvEmpty}

\* C16: under a malformed propagation string Chain() returns, and the chain
\* is the one the same call constructs without a propagation string:
\* trace_id, parent_id and mock are the arguments where given, else a fresh
\* trace id, no parent, mock False.
C16_MalformedIsAbsent ==
    \A t \in Threads :
        LET r == th[t].ret
            a == th[t].args
            ch == chains[r.n]
        IN r.op = "init" /\ env \in MalformedEnvs =>
              /\ r.kind = "return"
              /\ ch = NewChain(ch.backlog, a.parent_id, ch.subsegment, a.trace_id,
                               a.mock, a.use_env_trace_params, Unset, ch.trace_id)
              /\ a.trace_id # None \/ FreshTrace(r.n)
              /\ a.trace_id # None => ch.trace_id = a.trace_id
              /\ ch.parent_id = a.parent_id
              /\ ch.mock = (a.mock = "True")

\* C16 witness: Chain() with no argument under Root=t9;Parent=p9 returned
\* a chain with a fresh trace id, no parent and mock False.
C16_Witness ==
    /\ env = EnvNoSampled
    /\ th["t1"].ret.op = "init"
    /\ th["t1"].ret.kind = "return"
    /\ th["t1"].args = NoArgs
    /\ chains[th["t1"].ret.n].trace_id \notin {None, "t9"}
    /\ chains[th["t1"].ret.n].parent_id = None
    /\ ~chains[th["t1"].ret.n].mock

\* C17: the value flush() returns is the number of segments the flush took
\* out of the buffer and, with a sink, the length of the batch it submitted,
\* also while other threads record on the chain.
C17_FlushReturnsBatchSize ==
    \A t \in Threads :
        th[t].pc \in {"fl_clear", "fl_release"} /\ Submits(chains[th[t].c]) =>
            /\ sink[Len(sink)].by = t
            /\ sink[Len(sink)].c = th[t].c
            /\ th[t].nsegments = Len(sink[Len(sink)].docs)

\* The log_end calls for id on chain c that got past the del of line 260:
\* those still executing and those that returned.
Closers(c, id) ==
    {u \in Threads : \/ /\ th[u].op = "log_end"
                        /\ th[u].c = c
                        /\ th[u].arg = id
                        /\ th[u].pc \notin {"idle", "le_del"}
                     \/ /\ th[u].ret.op = "log_end"
                        /\ th[u].ret.c = c
                        /\ th[u].ret.arg = id
                        /\ th[u].ret.kind = "return"}

\* C18: of the log_end calls of several threads for one open id, one gets
\* past the lookup and the del and emits the one completed record of the
\* id; a call that finds the id gone after its lookup had found it loses
\* to exactly that call, and a call that raised KeyError has emitted and
\* submitted nothing.
C18_CloseOnce ==
    \A c \in Chains :
        /\ \A id \in Opened(c) :
              /\ Cardinality(Closers(c, id)) <= 1
              /\ Cardinality({i \in 1..Len(appended[c]) :
                     appended[c][i].id = id /\ ~appended[c][i].in_progress}) <= 1
        /\ \A t \in Threads :
              /\ th[t].pc = "le_del" /\ th[t].c = c
                    /\ th[t].arg \notin DOMAIN chains[c].in_progress =>
                    \/ th[t].arg \in Completed(c)
                    \/ \E u \in Closers(c, th[t].arg) :
                          u # t /\ th[u].pc \in {"le_log", "log_load", "log_append"}
              /\ th[t].ret.op = "log_end" /\ th[t].ret.c = c
                    /\ th[t].ret.kind = "raise" /\ th[t].ret.val = "KeyError" =>
                    th[t].ret.sent = 0

\* C18 witness: both threads called log_end with the same id while it was
\* open and passed the lookup of line 259; t1 has deleted the entry and
\* emitted the completed record, t2 is at its del.
C18_Witness ==
    /\ th["t1"].op = "log_end"
    /\ th["t2"].op = "log_end"
    /\ th["t1"].c = th["t2"].c
    /\ th["t1"].arg = th["t2"].arg
    /\ th["t1"].pc = "log_check"
    /\ th["t2"].pc = "le_del"
    /\ th["t1"].arg \in Opened(th["t1"].c) \cap Completed(th["t1"].c)
    /\ th["t2"].arg \notin DOMAIN chains[th["t2"].c].in_progress

\* C19: fork_root() without a parent_id returns a chain whose parent_id is
\* the forking chain's last_segment_id, None if the forking chain has
\* emitted nothing, whatever Parent the propagation string in the
\* environment carries.
C19_ForkRootParent ==
    \A t \in Threads :
        LET r == th[t].ret
        IN r.op = "fork_root" /\ r.kind # "none" /\ r.arg = None =>
              /\ r.kind = "return"
              /\ chains[r.n].parent_id = th[t].pre.last_segment_id

\* The chain the step of thread t is a step of a call on.
Acting(t) ==
    IF th[t].pc # "idle" THEN th[t].c
    ELSE IF th'[t].pc # "idle" THEN th'[t].c
    ELSE th'[t].ret.c

\* The step is a fork_root or fork_subsegment call of thread t.
ForkStep(t) ==
    /\ th[t].pc = "idle"
    /\ th'[t].pc = "idle"
    /\ th'[t] # th[t]
    /\ th'[t].ret.op \in ForkOps

\* A thread at flush_lock.acquire() can proceed whenever the lock of its
\* own chain is free, whatever the locks of the other chains.
OwnLockOnly ==
    \A t \in Threads :
        th[t].pc = "fl_acquire" /\ ~chains[th[t].c].flush_lock =>
            ENABLED FlushAcquire(t)

\* A step of thread t changes no chain but the one it is a call on; a fork
\* changes no chain at all, and the chain it returns has an empty buffer,
\* an empty in_progress, no last_segment_id and a free lock of its own.
ForkFrame(t) ==
    /\ \A d \in Chains : d # Acting(t) => chains'[d] = chains[d]
    /\ ForkStep(t) =>
          /\ \A d \in Chains : chains'[d] = chains[d]
          /\ th'[t].ret.kind = "raise" => chains' = chains
          /\ th'[t].ret.kind = "return" =>
                /\ Len(chains') = Len(chains) + 1
                /\ th'[t].ret.n = Len(chains')
                /\ chains'[Len(chains')].segments = <<>>
                /\ DOMAIN chains'[Len(chains')].in_progress = {}
                /\ chains'[Len(chains')].last_segment_id = None
                /\ ~chains'[Len(chains')].flush_lock

\* C20: forking leaves the forking chain as it is and yields a chain with
\* an empty buffer, an empty in_progress, last_segment_id None and its own
\* flush lock; no call on one chain changes another chain or waits for
\* another chain's lock.
C20_ForkIndependent ==
    []OwnLockOnly /\ [][\A t \in Threads : ForkFrame(t)]_vars

\* C20 witness: the first chain kept its buffer and its held lock after a
\* failed flush; the chain forked from it then recorded a segment, flushed
\* it to the sink and returned, its own lock free.
C20_Witness ==
    \E t \in Threads :
        /\ Len(chains) = 2
        /\ chains[2].origin = 1
        /\ chains[1].flush_lock
        /\ chains[1].segments # <<>>
        /\ th[t].ret.op = "log"
        /\ th[t].ret.c = 2
        /\ th[t].ret.kind = "return"
        /\ th[t].ret.sent = 1
        /\ sink[Len(sink)].c = 2
        /\ sink[Len(sink)].ok
        /\ chains[2].segments = <<>>
        /\ ~chains[2].flush_lock

====
